---- MODULE Spec2Model ----
(***************************************************************************)
(* Model of vnpy_futu/futu_datafeed.py: the FutuDatafeed component, its    *)
(* session lifecycle (init / close) and the paginated historical query     *)
(* (query_bar_history).  The quote sessions (OpenQuoteContext), the        *)
(* transport's encryption configuration (SysConfig) and the vendor's       *)
(* answers to page requests are the environment.                           *)
(***************************************************************************)
EXTENDS Integers, Sequences, FiniteSets, TLC

(* ------------------------------ bounds --------------------------------- *)
\* sessions the component may open in one run
MaxSessions == 2
\* times close() may be invoked on one session object
MaxCloseCalls == 2
\* page requests of one query (the vendor ends pagination by then)
MaxPages == 3

(* ----------------------------- constants ------------------------------- *)
RET_OK == 0
RET_ERROR == -1

\* Python's None for the session reference, the kline type and the token
NoCtx == 0
NoKType == "None"
NoKey == 0

INTERVAL_VT2FUTU ==
    [i \in {"MINUTE", "HOUR", "DAILY", "WEEKLY"} |->
        CASE i = "MINUTE" -> "K_1M"
          [] i = "HOUR"   -> "K_60M"
          [] i = "DAILY"  -> "K_DAY"
          [] i = "WEEKLY" -> "K_WEEK"]

EXCHANGE_VT2FUTU ==
    [e \in {"SEHK", "SMART", "SSE", "SZSE", "NASDAQ"} |->
        CASE e = "SEHK"   -> "HK"
          [] e = "SMART"  -> "US"
          [] e = "SSE"    -> "SH"
          [] e = "SZSE"   -> "SZ"
          [] e = "NASDAQ" -> "US"]

\* INTERVAL_VT2FUTU.get(interval)
GetKType(interval) ==
    IF interval \in DOMAIN INTERVAL_VT2FUTU THEN INTERVAL_VT2FUTU[interval] ELSE NoKType

\* EXCHANGE_VT2FUTU.get(exchange, "")
GetMarket(exchange) ==
    IF exchange \in DOMAIN EXCHANGE_VT2FUTU THEN EXCHANGE_VT2FUTU[exchange] ELSE ""

\* f"{market}.{symbol}"
FutuSymbol(market, symbol) == <<market, ".", symbol>>

\* datetime.strftime("%Y-%m-%d"): the calendar date, time of day discarded
StrfDate(dt) == dt.day

(* ------------------------------ inputs --------------------------------- *)
\* settings handed to init: the optional encryption flag
Settings == [is_encrypted : BOOLEAN]

\* the requests a caller makes: a mapped and an unmapped interval, a mapped
\* and an unmapped exchange
ReqIntervals == {"DAILY", "TICK"}
ReqExchanges == {"SEHK", "CFFEX"}
ReqStarts == {[day |-> 1, tod |-> 1]}
ReqEnds == {[day |-> 2, tod |-> 0]}
Requests ==
    [symbol : {"00700"}, exchange : ReqExchanges, interval : ReqIntervals,
     start : ReqStarts, end : ReqEnds]
NoReq == [symbol |-> "", exchange |-> "", interval |-> "",
          start |-> [day |-> 0, tod |-> 0], end |-> [day |-> 0, tod |-> 0]]

\* rows of the vendor's kline table
Rows ==
    { [time_key |-> [date |-> 1, time |-> 0], open |-> 10, high |-> 12, low |-> 9,
       close |-> 11, volume |-> 100, turnover |-> 1100],
      [time_key |-> [date |-> 2, time |-> 1], open |-> 11, high |-> 15, low |-> 11,
       close |-> 14, volume |-> 200, turnover |-> 2800] }

Row1 == CHOOSE r \in Rows : r.open = 10
Row2 == CHOOSE r \in Rows : r.open = 11

\* pages the vendor delivers: an empty one, one row, two rows
Pages == {<<>>, <<Row1>>, <<Row2, Row1>>}
Tokens == {1, 2}
ErrPayloads == {"vendor error"}

\* what request_history_kline returns: (ret, data, page_req_key)
Responses ==
    [ret : {RET_OK}, data : Pages, key : {NoKey} \cup Tokens]
    \cup [ret : {RET_ERROR}, data : ErrPayloads, key : {NoKey, 1}]

(* ------------------------------- state --------------------------------- *)
VARIABLES
    quote_ctx,     \* self.quote_ctx: NoCtx or the index of a session in sessions
    inited,        \* self.inited
    sessions,      \* every OpenQuoteContext opened so far: [open, closeCalls]
    sysEncrypt,    \* SysConfig: protocol encryption switched on
    last,          \* the last completed lifecycle call and what it returned
    pc,            \* position of query_bar_history: idle, first, page, done, raised
    req,           \* the request of the running query
    all_data,      \* rows accumulated by the running query
    page_req_key,  \* continuation token of the last response
    outputs,       \* what the running query passed to output, in order
    requests,      \* page requests the running query issued, in order
    responses,     \* answers the running query received, in order
    result         \* the returned list of bars

vars == <<quote_ctx, inited, sessions, sysEncrypt, last, pc, req, all_data,
          page_req_key, outputs, requests, responses, result>>

lifecycleVars == <<quote_ctx, inited, sessions, sysEncrypt, last>>
queryVars == <<pc, req, all_data, page_req_key, outputs, requests, responses, result>>

\* FutuDatafeed.__init__
Init ==
    /\ quote_ctx = NoCtx
    /\ inited = FALSE
    /\ sessions = <<>>
    /\ sysEncrypt = FALSE
    /\ last = [op |-> "new", ret |-> "none"]
    /\ pc = "idle"
    /\ req = NoReq
    /\ all_data = <<>>
    /\ page_req_key = NoKey
    /\ outputs = <<>>
    /\ requests = <<>>
    /\ responses = <<>>
    /\ result = <<>>

(* --------------------------- quote sessions ---------------------------- *)
\* OpenQuoteContext.close() on session s
SessionClose(ss, s) ==
    [ss EXCEPT ![s] = [open |-> FALSE, closeCalls |-> @.closeCalls + 1]]

\* OpenQuoteContext(host, port, is_encrypt)
SessionOpen(ss) == Append(ss, [open |-> TRUE, closeCalls |-> 0])

\* "if self.quote_ctx: self.quote_ctx.close()"
CloseIfPresent(ctx, ss) == IF ctx # NoCtx THEN SessionClose(ss, ctx) ELSE ss

\* close() is invoked at most MaxCloseCalls times on one session object
CanCloseCtx ==
    IF quote_ctx = NoCtx THEN TRUE ELSE sessions[quote_ctx].closeCalls < MaxCloseCalls

(* ----------------------------- lifecycle ------------------------------- *)
\* InitOk without the "if self.quote_ctx: self.quote_ctx.close()" of lines 55-56
InitOkNoClose(setting) ==
    /\ pc = "idle"
    /\ Len(sessions) < MaxSessions
    /\ sysEncrypt' = (sysEncrypt \/ setting.is_encrypted)
    /\ sessions' = SessionOpen(sessions)
    /\ quote_ctx' = Len(sessions) + 1
    /\ inited' = TRUE
    /\ last' = [op |-> "init", ret |-> "true"]
    /\ UNCHANGED queryVars

\* init, every step succeeding
InitOk(setting) ==
    /\ pc = "idle"
    /\ Len(sessions) < MaxSessions
    /\ CanCloseCtx
    /\ sysEncrypt' = (sysEncrypt \/ setting.is_encrypted)
    /\ sessions' = SessionOpen(CloseIfPresent(quote_ctx, sessions))
    /\ quote_ctx' = Len(sessions) + 1
    /\ inited' = TRUE
    /\ last' = [op |-> "init", ret |-> "true"]
    /\ UNCHANGED queryVars

\* InitEncryptFail closing the previous session before it returns
InitEncryptFailClosing(setting, enabled) ==
    /\ pc = "idle"
    /\ setting.is_encrypted
    /\ CanCloseCtx
    /\ sysEncrypt' = (sysEncrypt \/ enabled)
    /\ sessions' = CloseIfPresent(quote_ctx, sessions)
    /\ last' = [op |-> "init", ret |-> "false"]
    /\ UNCHANGED <<quote_ctx, inited>>
    /\ UNCHANGED queryVars

\* init with is_encrypted set and the encryption setup raising: either
\* enable_proto_encrypt raises, or it succeeds and set_init_rsa_file raises
InitEncryptFail(setting, enabled) ==
    /\ pc = "idle"
    /\ setting.is_encrypted
    /\ sysEncrypt' = (sysEncrypt \/ enabled)
    /\ last' = [op |-> "init", ret |-> "false"]
    /\ UNCHANGED <<quote_ctx, inited, sessions>>
    /\ UNCHANGED queryVars

\* init with the OpenQuoteContext constructor raising: the exception leaves
\* init after the previous session was closed
InitOpenFail(setting) ==
    /\ pc = "idle"
    /\ CanCloseCtx
    /\ sysEncrypt' = (sysEncrypt \/ setting.is_encrypted)
    /\ sessions' = CloseIfPresent(quote_ctx, sessions)
    /\ last' = [op |-> "init", ret |-> "raised"]
    /\ UNCHANGED <<quote_ctx, inited>>
    /\ UNCHANGED queryVars

\* Close leaving the initialized flag as it was
CloseKeepInited ==
    /\ pc = "idle"
    /\ CanCloseCtx
    /\ sessions' = CloseIfPresent(quote_ctx, sessions)
    /\ last' = [op |-> "close", ret |-> "none"]
    /\ UNCHANGED <<quote_ctx, inited, sysEncrypt>>
    /\ UNCHANGED queryVars

\* close
Close ==
    /\ pc = "idle"
    /\ CanCloseCtx
    /\ sessions' = CloseIfPresent(quote_ctx, sessions)
    /\ inited' = FALSE
    /\ last' = [op |-> "close", ret |-> "none"]
    /\ UNCHANGED <<quote_ctx, sysEncrypt>>
    /\ UNCHANGED queryVars

(* ------------------------- query_bar_history --------------------------- *)
Diag(kind, arg) == [kind |-> kind, arg |-> arg]

\* datetime.strptime(time_key, "%Y-%m-%d %H:%M:%S").replace(tzinfo=Asia/Shanghai)
ParseTime(time_key) ==
    [day |-> time_key.date, tod |-> time_key.time, tz |-> "Asia/Shanghai"]

\* ToBar taking the turnover from the volume column
ToBarTurnover(r, row) ==
    [symbol |-> r.symbol, exchange |-> r.exchange, datetime |-> ParseTime(row.time_key),
     interval |-> r.interval, volume |-> row.volume, turnover |-> row.volume,
     open_price |-> row.open, high_price |-> row.high, low_price |-> row.low,
     close_price |-> row.close, gateway_name |-> "FUTU"]

\* BarData(...) of one row
ToBar(r, row) ==
    [symbol |-> r.symbol, exchange |-> r.exchange, datetime |-> ParseTime(row.time_key),
     interval |-> r.interval, volume |-> row.volume, turnover |-> row.turnover,
     open_price |-> row.open, high_price |-> row.high, low_price |-> row.low,
     close_price |-> row.close, gateway_name |-> "FUTU"]

\* "for row in all_data.itertuples(): bars.append(bar)"
MakeBars(r, data) == [i \in 1..Len(data) |-> ToBar(r, data[i])]

\* Concat with its two arguments exchanged
ConcatPrepend(acc, data) == data \o acc

\* pd.concat([all_data, data], ignore_index=True)
Concat(acc, data) == acc \o data

\* the arguments of one request_history_kline call, and the session it goes to
KlineRequest(ctx, r, key) ==
    [session |-> ctx,
     session_open |-> IF ctx = NoCtx THEN FALSE ELSE sessions[ctx].open,
     code |-> FutuSymbol(GetMarket(r.exchange), r.symbol),
     ktype |-> GetKType(r.interval),
     start |-> StrfDate(r.start),
     end |-> StrfDate(r.end),
     page_req_key |-> key]

\* Finish without the output call of line 140
FinishSilent(data, outs) ==
    /\ result' = MakeBars(req', data)
    /\ outputs' = outs
    /\ pc' = "done"

\* lines 122-141: map the rows, report len(bars), return
Finish(data, outs) ==
    /\ result' = MakeBars(req', data)
    /\ outputs' = Append(outs, Diag("count", Len(result')))
    /\ pc' = "done"

\* LoopHead sending the token of the answer before the last one
LoopHeadStaleKey(data, key, outs) ==
    IF key # NoKey
    THEN /\ requests' = Append(requests, KlineRequest(quote_ctx, req', page_req_key))
         /\ outputs' = outs
         /\ pc' = "page"
         /\ result' = result
    ELSE /\ Finish(data, outs)
         /\ requests' = requests

\* LoopHead going on after an answer without a token
LoopHeadNoExit(data, key, outs) ==
    IF key # NoKey \/ Len(requests) < MaxPages
    THEN /\ requests' = Append(requests, KlineRequest(quote_ctx, req', key))
         /\ outputs' = outs
         /\ pc' = "page"
         /\ result' = result
    ELSE /\ Finish(data, outs)
         /\ requests' = requests

\* "while page_req_key:" - another page request, or the end of the loop
LoopHead(data, key, outs) ==
    IF key # NoKey
    THEN /\ requests' = Append(requests, KlineRequest(quote_ctx, req', key))
         /\ outputs' = outs
         /\ pc' = "page"
         /\ result' = result
    ELSE /\ Finish(data, outs)
         /\ requests' = requests

\* an early "return []" after one diagnostic
ReturnEmpty(outs) ==
    /\ outputs' = outs
    /\ result' = <<>>
    /\ pc' = "done"

\* Precheck without the "if not self.inited" test
PrecheckSkipInited(r) ==
    IF GetKType(r.interval) = NoKType THEN "bad_interval"
    ELSE IF GetMarket(r.exchange) = "" THEN "bad_exchange"
    ELSE "ok"

\* Precheck without the "if not ktype" test
PrecheckSkipInterval(r) ==
    IF ~inited THEN "not_inited"
    ELSE IF GetMarket(r.exchange) = "" THEN "bad_exchange"
    ELSE "ok"

\* Precheck without the "if not market" test
PrecheckSkipExchange(r) ==
    IF ~inited THEN "not_inited"
    ELSE IF GetKType(r.interval) = NoKType THEN "bad_interval"
    ELSE "ok"

\* lines 71-89: the checks before the session is contacted, in the code's order
Precheck(r) ==
    IF ~inited THEN "not_inited"
    ELSE IF GetKType(r.interval) = NoKType THEN "bad_interval"
    ELSE IF GetMarket(r.exchange) = "" THEN "bad_exchange"
    ELSE "ok"

\* lines 69-100: the call, its checks and the first page request
QueryBegin(r) ==
    /\ pc = "idle"
    /\ req' = r
    /\ responses' = <<>>
    /\ UNCHANGED <<all_data, page_req_key>>
    /\ IF Precheck(r) = "not_inited"
       THEN ReturnEmpty(<<Diag("not_inited", "")>>) /\ requests' = <<>>
       ELSE IF Precheck(r) = "bad_interval"
       THEN ReturnEmpty(<<Diag("bad_interval", r.interval)>>) /\ requests' = <<>>
       ELSE IF Precheck(r) = "bad_exchange"
       THEN ReturnEmpty(<<Diag("bad_exchange", r.exchange)>>) /\ requests' = <<>>
       ELSE /\ outputs' = <<Diag("start", <<FutuSymbol(GetMarket(r.exchange), r.symbol),
                                            GetKType(r.interval), r.start, r.end>>)>>
            /\ result' = <<>>
            /\ IF quote_ctx = NoCtx
               THEN \* self.quote_ctx is None: the attribute lookup at line 95 raises
                    /\ requests' = <<>>
                    /\ pc' = "raised"
               ELSE /\ requests' = <<KlineRequest(quote_ctx, r, NoKey)>>
                    /\ pc' = "first"
    /\ UNCHANGED lifecycleVars

\* the vendor ends pagination within MaxPages requests
WithinPages(resp) ==
    (resp.ret = RET_OK /\ resp.key # NoKey) => Len(requests) < MaxPages

\* FirstResponse with the "return []" of the failure branch missing
FirstResponseNoReturn(resp) ==
    /\ pc = "first"
    /\ WithinPages(resp)
    /\ responses' = Append(responses, resp)
    /\ page_req_key' = resp.key
    /\ req' = req
    /\ IF resp.ret # RET_OK
       THEN /\ all_data' = <<>>
            /\ LoopHead(<<>>, resp.key, Append(outputs, Diag("query_failed", resp.data)))
       ELSE /\ all_data' = resp.data
            /\ LoopHead(resp.data, resp.key, outputs)
    /\ UNCHANGED lifecycleVars

\* FirstResponse marking the component uninitialized when the first page fails
FirstResponseResetOnFail(resp) ==
    /\ pc = "first"
    /\ WithinPages(resp)
    /\ responses' = Append(responses, resp)
    /\ page_req_key' = resp.key
    /\ req' = req
    /\ IF resp.ret # RET_OK
       THEN /\ ReturnEmpty(Append(outputs, Diag("query_failed", resp.data)))
            /\ UNCHANGED <<all_data, requests>>
            /\ inited' = FALSE
       ELSE /\ all_data' = resp.data
            /\ LoopHead(resp.data, resp.key, outputs)
            /\ inited' = inited
    /\ UNCHANGED <<quote_ctx, sessions, sysEncrypt, last>>

\* lines 95-108: the answer to the first page request
FirstResponse(resp) ==
    /\ pc = "first"
    /\ WithinPages(resp)
    /\ responses' = Append(responses, resp)
    /\ page_req_key' = resp.key
    /\ req' = req
    /\ IF resp.ret # RET_OK
       THEN /\ ReturnEmpty(Append(outputs, Diag("query_failed", resp.data)))
            /\ UNCHANGED <<all_data, requests>>
       ELSE /\ all_data' = resp.data
            /\ LoopHead(resp.data, resp.key, outputs)
    /\ UNCHANGED lifecycleVars

\* PageResponse throwing the accumulated rows away when a page fails
PageResponseDiscard(resp) ==
    /\ pc = "page"
    /\ WithinPages(resp)
    /\ responses' = Append(responses, resp)
    /\ page_req_key' = resp.key
    /\ req' = req
    /\ IF resp.ret = RET_OK
       THEN /\ all_data' = Concat(all_data, resp.data)
            /\ LoopHead(Concat(all_data, resp.data), resp.key, outputs)
       ELSE /\ all_data' = <<>>
            /\ Finish(<<>>, Append(outputs, Diag("page_failed", resp.data)))
            /\ requests' = requests
    /\ UNCHANGED lifecycleVars

\* PageResponse with "continue" where the code has "break"
PageResponseContinue(resp) ==
    /\ pc = "page"
    /\ Len(requests) < MaxPages
    /\ responses' = Append(responses, resp)
    /\ page_req_key' = resp.key
    /\ req' = req
    /\ IF resp.ret = RET_OK
       THEN /\ all_data' = Concat(all_data, resp.data)
            /\ LoopHead(Concat(all_data, resp.data), resp.key, outputs)
       ELSE /\ all_data' = all_data
            /\ LoopHead(all_data, resp.key, Append(outputs, Diag("page_failed", resp.data)))
    /\ UNCHANGED lifecycleVars

\* lines 109-120: the answer to a continuation request
PageResponse(resp) ==
    /\ pc = "page"
    /\ WithinPages(resp)
    /\ responses' = Append(responses, resp)
    /\ page_req_key' = resp.key
    /\ req' = req
    /\ IF resp.ret = RET_OK
       THEN /\ all_data' = Concat(all_data, resp.data)
            /\ LoopHead(Concat(all_data, resp.data), resp.key, outputs)
       ELSE /\ all_data' = all_data
            /\ Finish(all_data, Append(outputs, Diag("page_failed", resp.data)))
            /\ requests' = requests
    /\ UNCHANGED lifecycleVars

\* the caller takes the returned list; the call's frame is gone
QueryReturn ==
    /\ pc = "done"
    /\ pc' = "idle"
    /\ req' = NoReq
    /\ all_data' = <<>>
    /\ page_req_key' = NoKey
    /\ outputs' = <<>>
    /\ requests' = <<>>
    /\ responses' = <<>>
    /\ result' = <<>>
    /\ UNCHANGED lifecycleVars

(* --------------------------- specification ----------------------------- *)
Next ==
    \/ \E setting \in Settings : InitOk(setting)
    \/ \E setting \in Settings, enabled \in BOOLEAN : InitEncryptFail(setting, enabled)
    \/ \E setting \in Settings : InitOpenFail(setting)
    \/ Close
    \/ \E r \in Requests : QueryBegin(r)
    \/ \E resp \in Responses : FirstResponse(resp)
    \/ \E resp \in Responses : PageResponse(resp)
    \/ QueryReturn

Spec == Init /\ [][Next]_vars

\* the session answers every page request: request_history_kline blocks
\* until the vendor responds and then returns
FairSpec ==
    /\ Spec
    /\ WF_vars(\E resp \in Responses : FirstResponse(resp))
    /\ WF_vars(\E resp \in Responses : PageResponse(resp))

(* ------------------------------ helpers -------------------------------- *)
IsOk(resp) == resp.ret = RET_OK

\* rows of the first n answers, in delivery order
RECURSIVE RowsOf(_, _)
RowsOf(resps, n) ==
    IF n = 0 THEN <<>> ELSE RowsOf(resps, n - 1) \o resps[n].data

\* sum of the page sizes of the first n answers
RECURSIVE SizeOf(_, _)
SizeOf(resps, n) ==
    IF n = 0 THEN 0 ELSE SizeOf(resps, n - 1) + Len(resps[n].data)

\* bar b carries row's values and the request's symbol, exchange and interval
BarIsRow(b, row, r) ==
    /\ b.open_price = row.open /\ b.high_price = row.high
    /\ b.low_price = row.low /\ b.close_price = row.close
    /\ b.volume = row.volume /\ b.turnover = row.turnover
    /\ b.datetime.day = row.time_key.date /\ b.datetime.tod = row.time_key.time
    /\ b.symbol = r.symbol /\ b.exchange = r.exchange /\ b.interval = r.interval

\* the returned bars are exactly the rows, one bar per row, in order
BarsAre(bars, rows, r) ==
    /\ Len(bars) = Len(rows)
    /\ \A i \in 1..Len(rows) : BarIsRow(bars[i], rows[i], r)

Kinds(outs) == [i \in 1..Len(outs) |-> outs[i].kind]

InCall == pc # "idle"

(* ------------------------------- claims -------------------------------- *)

\* C1: a query made while initialized is false returns an empty sequence,
\* emits exactly one diagnostic, the "not initialized" one, and issues no
\* request to the session, whatever the request's interval and exchange.
C1_UninitializedQuery ==
    (InCall /\ ~inited) =>
        /\ pc = "done"
        /\ result = <<>>
        /\ Kinds(outputs) = <<"not_inited">>
        /\ requests = <<>>
        /\ responses = <<>>

\* an uninitialized query after close(), with an unsupported interval
C1_Witness ==
    /\ pc = "done" /\ ~inited /\ last.op = "close"
    /\ req.interval \notin DOMAIN INTERVAL_VT2FUTU
    /\ Kinds(outputs) = <<"not_inited">>

\* C2: on an initialized component a request whose interval is not in the
\* interval map returns an empty sequence, emits exactly one diagnostic and
\* issues no request to the session, whatever its exchange.
C2_UnsupportedInterval ==
    (InCall /\ inited /\ req.interval \notin DOMAIN INTERVAL_VT2FUTU) =>
        /\ pc = "done"
        /\ result = <<>>
        /\ Len(outputs) = 1
        /\ outputs[1] = Diag("bad_interval", req.interval)
        /\ requests = <<>>
        /\ responses = <<>>

\* an unsupported interval together with an unsupported exchange
C2_Witness ==
    /\ pc = "done" /\ inited
    /\ req.interval = "TICK" /\ req.exchange = "CFFEX"
    /\ Kinds(outputs) = <<"bad_interval">>

\* C3: on an initialized component a request whose interval is mapped and
\* whose exchange is not in the exchange map returns an empty sequence, emits
\* exactly one diagnostic and issues no request to the session.
C3_UnsupportedExchange ==
    (/\ InCall /\ inited
     /\ req.interval \in DOMAIN INTERVAL_VT2FUTU
     /\ req.exchange \notin DOMAIN EXCHANGE_VT2FUTU) =>
        /\ pc = "done"
        /\ result = <<>>
        /\ Len(outputs) = 1
        /\ outputs[1] = Diag("bad_exchange", req.exchange)
        /\ requests = <<>>
        /\ responses = <<>>

C3_Witness ==
    /\ pc = "done" /\ inited
    /\ req.interval = "DAILY" /\ req.exchange = "CFFEX"
    /\ Kinds(outputs) = <<"bad_exchange">>

\* every answer of the call so far was a success
AllOk == \A k \in 1..Len(responses) : IsOk(responses[k])

\* C4: when every page request succeeds and the last page carries no token,
\* the returned bars are the rows of all pages, in delivery order and in row
\* order within a page, and their number is the sum of the page sizes.
C4_AllPagesConcatenated ==
    (/\ pc = "done" /\ Len(responses) >= 1 /\ AllOk
     /\ responses[Len(responses)].key = NoKey) =>
        /\ BarsAre(result, RowsOf(responses, Len(responses)), req)
        /\ Len(result) = SizeOf(responses, Len(responses))

\* three pages of one, two and one rows
C4_Witness ==
    /\ pc = "done" /\ Len(responses) = 3 /\ AllOk
    /\ Len(responses[1].data) = 1 /\ Len(responses[2].data) = 2
    /\ Len(responses[3].data) = 1
    /\ Len(result) = 4

\* C5: when the first page succeeds with a token and a later page request
\* fails, the query stops paginating, emits a page-failure diagnostic and
\* returns exactly the bars of the pages received before the failure.
C5_LaterPageFailure ==
    \A k \in 2..Len(responses) :
        ~IsOk(responses[k]) =>
            /\ pc = "done"
            /\ Len(responses) = k
            /\ Len(requests) = k
            /\ Len(outputs) >= 2
            /\ outputs[Len(outputs) - 1] = Diag("page_failed", responses[k].data)
            /\ BarsAre(result, RowsOf(responses, k - 1), req)

\* the third page fails after two pages with rows; the failed answer carries a token
C5_Witness ==
    /\ pc = "done" /\ Len(responses) = 3
    /\ ~IsOk(responses[3]) /\ responses[3].key # NoKey
    /\ Len(result) = 3

\* C6: when the first page request returns a non-success status the query
\* emits a failure diagnostic carrying the vendor's error payload, returns an
\* empty sequence and issues no further request, token or not.
C6_FirstPageFailure ==
    (Len(responses) >= 1 /\ ~IsOk(responses[1])) =>
        /\ pc = "done"
        /\ Len(responses) = 1
        /\ Len(requests) = 1
        /\ result = <<>>
        /\ Kinds(outputs) = <<"start", "query_failed">>
        /\ outputs[2].arg = responses[1].data

\* the failed first answer carried a continuation token
C6_Witness ==
    /\ pc = "done" /\ Len(responses) = 1
    /\ ~IsOk(responses[1]) /\ responses[1].key # NoKey
    /\ result = <<>>

\* successful answers so far that carried a continuation token
Continuations == {k \in 1..Len(responses) : IsOk(responses[k]) /\ responses[k].key # NoKey}

C8_OldSessionClosed ==
    (last = [op |-> "init", ret |-> "false"] /\ quote_ctx # NoCtx) =>
        ~sessions[quote_ctx].open

\* a lifecycle call that ended as init returning failure
EncryptFailStep ==
    pc = "idle" /\ pc' = "idle" /\ last' = [op |-> "init", ret |-> "false"]

\* C8, amended: an init that fails in the encryption setup returns failure,
\* opens no session and leaves the session reference, the initialized flag
\* and every session as they were: the previous session is not closed.
C8_EncryptFailKeepsState ==
    [][EncryptFailStep =>
        /\ quote_ctx' = quote_ctx
        /\ inited' = inited
        /\ sessions' = sessions]_vars

\* a failed init with the previous session still open and initialized set
C8_Witness ==
    /\ last = [op |-> "init", ret |-> "false"]
    /\ inited /\ quote_ctx # NoCtx /\ sessions[quote_ctx].open

\* a lifecycle call that ended as close()
CloseStep == pc = "idle" /\ pc' = "idle" /\ last'.op = "close"

\* C9: close() never raises and always leaves initialized false; with no
\* session it makes no call on any session; otherwise it closes the session
\* the component holds and touches no other; a close() right after a close()
\* leaves the component and the sessions' open status as they were.
C9_CloseIdempotent ==
    [][CloseStep =>
        /\ last'.ret = "none"
        /\ inited' = FALSE
        /\ quote_ctx' = quote_ctx
        /\ Len(sessions') = Len(sessions)
        /\ quote_ctx = NoCtx => sessions' = sessions
        /\ \A s \in 1..Len(sessions) :
              IF s = quote_ctx
              THEN ~sessions'[s].open /\ sessions'[s].closeCalls = sessions[s].closeCalls + 1
              ELSE sessions'[s] = sessions[s]
        /\ last.op = "close" =>
              /\ inited' = inited
              /\ \A s \in 1..Len(sessions) : sessions'[s].open = sessions[s].open]_vars

\* close() has run twice on the session the component holds
C9_Witness ==
    /\ last.op = "close" /\ ~inited /\ quote_ctx # NoCtx
    /\ sessions[quote_ctx].closeCalls = 2 /\ ~sessions[quote_ctx].open

\* close() before any init()
C9_WitnessFresh == last.op = "close" /\ ~inited /\ sessions = <<>> /\ quote_ctx = NoCtx

\* C10: initialized is true only if the component's session was opened by a
\* successful connection setup and has not been closed since, and every page
\* request goes to an open session.
C10_InitedMeansOpenSession ==
    /\ inited => IF quote_ctx = NoCtx THEN FALSE ELSE sessions[quote_ctx].open
    /\ \A k \in 1..Len(requests) : requests[k].session_open

\* C11: whatever the session state, the request and the vendor's statuses,
\* a query never ends in an exception: it ends by returning a (possibly
\* empty) sequence of bars after at least one diagnostic.
C11_NeverRaises ==
    /\ pc \in {"idle", "first", "page", "done"}
    /\ pc = "done" =>
          /\ Len(outputs) >= 1
          /\ DOMAIN result = 1..Len(result)
          /\ \A i \in 1..Len(result) : result[i].gateway_name = "FUTU"

\* a query on a component whose session was closed by a failed re-init,
\* ending after a page failure with the rows received before it
C11_Witness ==
    /\ pc = "done" /\ inited /\ ~sessions[quote_ctx].open
    /\ Len(responses) = 2 /\ ~IsOk(responses[2])
    /\ Len(result) >= 1 /\ Len(outputs) = 3

\* positions of the "final count" diagnostic among the call's diagnostics
CountDiags == {k \in 1..Len(outputs) : outputs[k].kind = "count"}

FirstPageOk == Len(responses) >= 1 /\ IsOk(responses[1])

\* C12: a returned call emitted the "final count" diagnostic exactly when its
\* first page succeeded (a later page may have failed); it is then the last
\* diagnostic, emitted once, and reports the length of the returned sequence.
\* On the uninitialized, unsupported-interval, unsupported-exchange and
\* first-page-failure paths it is not emitted; nor is it before the return.
C12_FinalCount ==
    /\ pc = "done" =>
          IF FirstPageOk
          THEN /\ CountDiags = {Len(outputs)}
               /\ outputs[Len(outputs)].arg = Len(result)
          ELSE CountDiags = {}
    /\ pc # "done" => CountDiags = {}

\* the count is reported after the page-failure diagnostic and is not zero
C12_Witness ==
    /\ pc = "done" /\ FirstPageOk
    /\ Kinds(outputs) = <<"start", "page_failed", "count">>
    /\ outputs[3].arg = 2 /\ Len(result) = 2

\* C13: the first request of a call carries no token; every later request
\* carries the code, kline type, start date and end date of the first one and
\* exactly the token of the answer just before it; a request is issued only
\* once all earlier requests were answered.
C13_ContinuationRequests ==
    /\ Len(requests) <= Len(responses) + 1
    /\ \A k \in 1..Len(requests) :
          /\ requests[k].code = requests[1].code
          /\ requests[k].ktype = requests[1].ktype
          /\ requests[k].start = requests[1].start
          /\ requests[k].end = requests[1].end
          /\ requests[k].session = requests[1].session
          /\ IF k = 1
             THEN requests[k].page_req_key = NoKey
             ELSE /\ requests[k].page_req_key = responses[k - 1].key
                  /\ requests[k].page_req_key # NoKey

\* three requests, the second and the third with different tokens
C13_Witness ==
    /\ Len(requests) = 3 /\ Len(responses) = 2
    /\ requests[1].page_req_key = NoKey
    /\ requests[2].page_req_key = 1 /\ requests[3].page_req_key = 2
    /\ requests[3].start = 1 /\ requests[3].end = 2

\* C14: the returned sequence has one bar per accumulated row, in row order:
\* bar i carries the open, high, low, close, volume and turnover of row i
\* unchanged, the row's timestamp in the Asia/Shanghai zone, the symbol,
\* exchange and interval of the request, and the gateway identifier "FUTU".
C14_RowMapping ==
    (pc = "done" /\ FirstPageOk) =>
        /\ Len(result) = Len(all_data)
        /\ \A i \in 1..Len(all_data) :
              /\ result[i].open_price = all_data[i].open
              /\ result[i].high_price = all_data[i].high
              /\ result[i].low_price = all_data[i].low
              /\ result[i].close_price = all_data[i].close
              /\ result[i].volume = all_data[i].volume
              /\ result[i].turnover = all_data[i].turnover
              /\ result[i].datetime =
                    [day |-> all_data[i].time_key.date,
                     tod |-> all_data[i].time_key.time, tz |-> "Asia/Shanghai"]
              /\ result[i].symbol = req.symbol
              /\ result[i].exchange = req.exchange
              /\ result[i].interval = req.interval
              /\ result[i].gateway_name = "FUTU"

\* three bars from two pages, the rows not in timestamp order
C14_Witness ==
    /\ pc = "done" /\ Len(all_data) = 3 /\ Len(result) = 3
    /\ result[1].open_price = 10 /\ result[2].open_price = 11
    /\ result[3].open_price = 10
    /\ result[2].turnover = 2800 /\ result[2].volume = 200
    /\ result[1].exchange = "SEHK" /\ result[1].interval = "DAILY"

\* the sessions the component opened that are open now
OpenSessions == {s \in 1..Len(sessions) : sessions[s].open}

\* C15: at most one session opened by the component is open at any time,
\* and an open session is the one the component holds: a successful init has
\* closed the session it replaced, so none is left open and unreferenced.
C15_AtMostOneOpenSession ==
    /\ Cardinality(OpenSessions) <= 1
    /\ \A s \in OpenSessions : s = quote_ctx

\* a second successful init: the first session, open until then, was closed
\* once, by that init, and the new one is open
C15_Witness ==
    /\ last = [op |-> "init", ret |-> "true"]
    /\ Len(sessions) = 2 /\ quote_ctx = 2
    /\ sessions[1] = [open |-> FALSE, closeCalls |-> 1]
    /\ sessions[2].open

\* C16: close() is invoked at most once on each session the component
\* opened: a session closed by close() is not closed again by a later close()
\* or a later init().
C16_SessionClosedOnce ==
    \A s \in 1..Len(sessions) : sessions[s].closeCalls <= 1

\* a step of query_bar_history: the call, an answer, or the return
QueryStep == pc # "idle" \/ pc' # "idle"

\* C17: no step of a query, on any of its paths, changes the initialized
\* flag, the session the component holds or any session's state (a query
\* closes nothing), so once the call has returned every request passes or
\* fails the checks before the session exactly as it did before the call.
C17_QueryKeepsSessionState ==
    [][QueryStep =>
        /\ inited' = inited
        /\ quote_ctx' = quote_ctx
        /\ sessions' = sessions
        /\ \A r \in Requests : Precheck(r)' = Precheck(r)]_vars

\* a query whose first page failed has returned; the component is still
\* initialized and its session still open
C17_Witness ==
    /\ pc = "done" /\ Len(responses) = 1 /\ ~IsOk(responses[1])
    /\ inited /\ quote_ctx # NoCtx /\ sessions[quote_ctx].open
    /\ \E r \in Requests : Precheck(r) = "ok"

\* answer k ends the pagination: a non-success status, or no continuation token
Terminal(k) == ~IsOk(responses[k]) \/ responses[k].key = NoKey

\* C18: when the vendor answers every page request and, within MaxPages
\* requests, answers one with a non-success status or without a token, a call
\* waiting for an answer eventually returns; the loop ends at the first such
\* answer: no request and no answer follows it.
C18_QueryReturns ==
    /\ (pc \in {"first", "page"}) ~> (pc = "done")
    /\ [](\A k \in 1..Len(responses) :
            Terminal(k) => pc = "done" /\ Len(responses) = k /\ Len(requests) = k)

\* a call that returned after three successful pages, the third without a token
C18_Witness ==
    /\ pc = "done" /\ Len(responses) = 3 /\ Len(requests) = 3
    /\ AllOk /\ ~Terminal(1) /\ ~Terminal(2) /\ Terminal(3)

====
